---------------------------- MODULE Spec2Model ----------------------------
(***************************************************************************)
(* Model of the feed aggregation server (src/server/src/server.js):        *)
(* the token bucket, the relay cache, the three source fetchers and the    *)
(* /api/feed handler.  Times are milliseconds, as Date.now() gives them.   *)
(***************************************************************************)
EXTENDS Integers, Sequences, FiniteSets, TLC

(***************************************************************************)
(* Program constants.                                                      *)
(***************************************************************************)
InitialTokens == 5
RefillRate == 60000
Capacity == 5
StdTTL == 600
CollectWindow == 10000
PostsPerPage == 40
MaxPages == 10

(***************************************************************************)
(* Bounds of the model.                                                    *)
(***************************************************************************)
\* clock advances in one behaviour
MaxTicks == 4
\* getToken calls made at one instant
MaxBurst == 7
\* events one subscription may retain
MaxCollected == 2
\* size of a partial (last) search page served by the upstream
ShortLen == 5
\* /api/feed requests one slot takes, one after the other
MaxFeedRequests == 2

Min(a, b) == IF a < b THEN a ELSE b

\* call slots: a slot holds one invocation of a fetcher (or of the handler)
Slots == {1, 2}

VARIABLES
    now,          \* Date.now()
    ticks,        \* clock advances so far
    tokenBucket,  \* [tokens, lastRefill]
    burst,        \* results of the getToken calls made at the current instant
    prev,         \* results of the calls made at the last earlier instant with calls
    prevAt,       \* that instant
    acq,          \* (history) getToken calls that returned true, tokens the refills added
    nostrCache,   \* cache key (tab) -> entry, or NoEntry
    bsky,         \* slot -> fetchBlueskyPosts invocation
    nostr,        \* slot -> fetchNostrPosts invocation
    masto,        \* slot -> fetchMastodonPosts invocation
    req,          \* slot -> /api/feed request
    client        \* the state of the App component in the browser

clockVars == <<now, ticks>>
bucketVars == <<tokenBucket, burst, prev, prevAt, acq>>
serverVars ==
    <<now, ticks, tokenBucket, burst, prev, prevAt, acq, nostrCache, bsky, nostr, masto, req>>
vars == <<serverVars, client>>

(***************************************************************************)
(* Token bucket (getToken).                                                *)
(***************************************************************************)
\* mutant: a started interval counts as a whole one
RefillAmount_Ceil(tb, t) == (t - tb.lastRefill + RefillRate - 1) \div RefillRate

\* Math.floor(timeSinceLastRefill / refillRate)
RefillAmount(tb, t) == (t - tb.lastRefill) \div RefillRate

\* mutant: the refill is credited but the baseline is not advanced
Refilled_KeepBaseline(tb, t) ==
    IF RefillAmount(tb, t) > 0
    THEN [tb EXCEPT !.tokens = Min(Capacity, tb.tokens + RefillAmount(tb, t))]
    ELSE tb

\* mutant: the refill is not capped at the capacity
Refilled_NoCap(tb, t) ==
    IF RefillAmount(tb, t) > 0
    THEN [tokens |-> tb.tokens + RefillAmount(tb, t), lastRefill |-> t]
    ELSE tb

\* mutant: the baseline advances by the credited whole intervals only
Refilled_Aligned(tb, t) ==
    IF RefillAmount(tb, t) > 0
    THEN [tokens |-> Min(Capacity, tb.tokens + RefillAmount(tb, t)),
          lastRefill |-> tb.lastRefill + RefillAmount(tb, t) * RefillRate]
    ELSE tb

\* the refill step of getToken
Refilled(tb, t) ==
    IF RefillAmount(tb, t) > 0
    THEN [tokens |-> Min(Capacity, tb.tokens + RefillAmount(tb, t)), lastRefill |-> t]
    ELSE tb

\* mutant: a call that returns true leaves the tokens as the refill left them
GetToken_NoDecrement(tb, t) ==
    LET r == Refilled(tb, t)
    IN  [ok |-> r.tokens > 0, bucket |-> r]

\* mutant: a refused call restarts the refill interval
GetToken_FailTouches(tb, t) ==
    LET r == Refilled(tb, t)
    IN  IF r.tokens > 0
        THEN [ok |-> TRUE, bucket |-> [r EXCEPT !.tokens = @ - 1]]
        ELSE [ok |-> FALSE, bucket |-> [r EXCEPT !.lastRefill = t]]

\* getToken at time t on bucket tb: the result and the bucket it leaves
GetToken(tb, t) ==
    LET r == Refilled(tb, t)
    IN  IF r.tokens > 0
        THEN [ok |-> TRUE, bucket |-> [r EXCEPT !.tokens = @ - 1]]
        ELSE [ok |-> FALSE, bucket |-> r]

\* a getToken call made now; ok is what it returns
Acquire(ok) ==
    /\ Len(burst) < MaxBurst
    /\ ok = GetToken(tokenBucket, now).ok
    /\ tokenBucket' = GetToken(tokenBucket, now).bucket
    /\ burst' = Append(burst, ok)
    /\ acq' = [granted |-> acq.granted + (IF ok THEN 1 ELSE 0),
               credited |-> acq.credited + Refilled(tokenBucket, now).tokens
                                - tokenBucket.tokens]
    /\ UNCHANGED <<prev, prevAt>>

\* the clock advances by d ms
Tick(d) ==
    /\ ticks < MaxTicks
    /\ now' = now + d
    /\ ticks' = ticks + 1
    /\ burst' = <<>>
    /\ prev' = IF burst # <<>> THEN burst ELSE prev
    /\ prevAt' = IF burst # <<>> THEN now ELSE prevAt
    /\ UNCHANGED <<tokenBucket, acq>>

InitClock == now = 0 /\ ticks = 0

InitBucket ==
    /\ tokenBucket = [tokens |-> InitialTokens, lastRefill |-> 0]
    /\ burst = <<>>
    /\ prev = <<>>
    /\ prevAt = 0
    /\ acq = [granted |-> 0, credited |-> 0]

(***************************************************************************)
(* Topic patterns and feed references.  A text is modelled by the set of   *)
(* pattern alternatives that occur in it (lower-cased): the patterns are   *)
(* alternations of literal fragments, tested case-insensitively.           *)
(***************************************************************************)
feedLinks ==
    << "aaap7msb6vmdg", "aaap7i2f6e3kq", "aaacsjo76q5g4", "aaab4n3ofdehe",
       "aaaburmrbef3k", "aaab4xs76ypte", "aaabut5jyrc6c", "gggp7i2f6e3kq" >>

nostrSearchPatterns ==
    << << ".gov/", "bea.gov", "stlouisfed.org", "worldbank.org", "bls.gov", "imf.org",
          "oecd.org", "europa.eu/eurostat", "unstats.un.org", "arxiv.org", "nih.gov",
          "nasa.gov", "science.org", "cell.com", "pnas.org" >>,
       << ".gov/" >>,
       << "bea.gov", "stlouisfed.org", "worldbank.org", "bls.gov", "imf.org", "oecd.org",
          "europa.eu/eurostat", "unstats.un.org" >>,
       << "arxiv.org", "nih.gov", "nasa.gov", "science.org", "cell.com", "pnas.org" >>,
       << "imdb.com", "rottentomatoes.com", "netflix.com", "hulu.com",
          "amazon.com/gp/video/", "play.max.com" >>,
       << "podcasts.apple.com", "open.spotify.com/episode/", "open.spotify.com/show/" >>,
       << "spotify.com/artist", "spotify.com/track", "spotify.com/album",
          "music.apple.com", "soundcloud.com" >> >>

\* the feed requests one client issues
MaxRequests == 4

\* JavaScript arrays are indexed from 0; an index outside the array reads undefined
Defined(arr, i) == i \in 0 .. (Len(arr) - 1)
At(arr, i) == arr[i + 1]

Range(s) == {s[i] : i \in DOMAIN s}

\* nostrSearchPatterns[tab].test(content), for a defined pattern
Matches(tab, content) == content \cap Range(At(nostrSearchPatterns, tab)) # {}

\* texts the upstreams deliver
TextGov == {"bls.gov", ".gov/"}
TextArxiv == {"arxiv.org"}
TextFilm == {"imdb.com"}
TextPlain == {}

\* the tab indexes the model passes to the fetchers (7 and -1 name no pattern)
TabValues == {-1, 0, 1, 3, 7}

(***************************************************************************)
(* nostrCache: NodeCache({ stdTTL: 600 }).  An entry holds the value, its  *)
(* expiry t = (time of set) + stdTTL * 1000, and (history) the time of set.*)
(* get returns the value unless t < now; it deletes an expired entry.  The *)
(* cache also checks its entries on a timer of its own, every checkperiod  *)
(* seconds (600 by default), and deletes those past their expiry.          *)
(***************************************************************************)
NoEntry == [has |-> FALSE, v |-> <<>>, t |-> 0, at |-> 0]

Expired(e, t) == e.t < t

\* mutant: get never looks at the expiry
CacheGet_NoExpiry(cache, key, t) ==
    [found |-> cache[key].has, v |-> cache[key].v, cache |-> cache]

\* mutant: get removes the entry it returns
CacheGet_Take(cache, key, t) ==
    IF cache[key].has /\ ~Expired(cache[key], t)
    THEN [found |-> TRUE, v |-> cache[key].v, cache |-> [cache EXCEPT ![key] = NoEntry]]
    ELSE [found |-> FALSE, v |-> <<>>, cache |-> [cache EXCEPT ![key] = NoEntry]]

\* nostrCache.get(key) at time t: an entry past its expiry is removed
CacheGet(cache, key, t) ==
    IF cache[key].has /\ ~Expired(cache[key], t)
    THEN [found |-> TRUE, v |-> cache[key].v, cache |-> cache]
    ELSE [found |-> FALSE, v |-> <<>>, cache |-> [cache EXCEPT ![key] = NoEntry]]

\* mutant: the TTL is taken for milliseconds
CacheSet_TtlAsMs(cache, key, v, t) ==
    [cache EXCEPT ![key] = [has |-> TRUE, v |-> v, t |-> t + StdTTL, at |-> t]]

CacheSet(cache, key, v, t) ==
    [cache EXCEPT ![key] = [has |-> TRUE, v |-> v, t |-> t + StdTTL * 1000, at |-> t]]

\* the default checkperiod of NodeCache (s)
CheckPeriod == 600

\* what the periodic check leaves of the cache at time t
CacheCheck(cache, t) ==
    [k \in DOMAIN cache |->
        IF cache[k].has /\ Expired(cache[k], t) THEN NoEntry ELSE cache[k]]

InitCache == nostrCache = [k \in TabValues |-> NoEntry]

(***************************************************************************)
(* fetchNostrPosts.                                                        *)
(***************************************************************************)
\* events the relays deliver: id, content, and whether nip19.npubEncode
\* accepts the pubkey
Events ==
    { [id |-> 1, content |-> TextGov, pubkeyOk |-> TRUE],
      [id |-> 2, content |-> TextPlain, pubkeyOk |-> TRUE],
      [id |-> 3, content |-> TextArxiv, pubkeyOk |-> TRUE],
      [id |-> 4, content |-> TextGov, pubkeyOk |-> FALSE] }

IdleNostr ==
    [pc |-> "idle", tab |-> 0, hit |-> FALSE, collected |-> <<>>, deadline |-> 0,
     seen |-> 0, result |-> <<>>, pools |-> 0, poolsCreated |-> 0, subs |-> 0,
     subsOpened |-> 0, timers |-> 0, fired |-> 0, failed |-> FALSE, evicted |-> FALSE]

\* events.map(...) of lines 205-212
ProcessedEvents(events) ==
    [i \in DOMAIN events |-> [id |-> events[i].id, content |-> events[i].content]]

\* whether that map throws (npubEncode on a malformed pubkey)
ProcessingThrows(events) == \E i \in DOMAIN events : ~events[i].pubkeyOk

\* mutant: the cache is not consulted
NostrLookup_NoCache(tab) == [found |-> FALSE, v |-> <<>>, cache |-> nostrCache]

\* lines 160-165: the cache lookup of a fetch for tab made now
NostrLookup(tab) == CacheGet(nostrCache, tab, now)

\* mutant: the catch block does not close the pool
NostrCatch_NoClose(n) == [n EXCEPT !.pc = "done", !.failed = TRUE]

\* the catch block (lines 218-222): pool.close, return []
NostrCatch(n) == [n EXCEPT !.pc = "done", !.failed = TRUE, !.pools = 0]

\* fetchNostrPosts(tab) up to its first suspension point (lines 158-203).
\* subOk: pool.sub(...) returns (it may throw instead).  evicted records
\* (history) that the lookup met an entry past its expiry, which get removed.
FetchNostrStart(c, tab, subOk) ==
    LET g == NostrLookup(tab)
        fresh == [IdleNostr EXCEPT !.tab = tab, !.evicted = g.cache # nostrCache]
    IN  /\ nostr[c].pc \in {"idle", "done"}
        /\ nostrCache' = g.cache
        /\ IF g.found
           THEN nostr' = [nostr EXCEPT ![c] =
                    [fresh EXCEPT !.pc = "done", !.hit = TRUE, !.result = g.v]]
           ELSE IF subOk
           THEN /\ ticks < MaxTicks
                /\ nostr' = [nostr EXCEPT ![c] =
                    [fresh EXCEPT !.pc = "collecting", !.pools = 1, !.poolsCreated = 1,
                                  !.subs = 1, !.subsOpened = 1, !.timers = 1,
                                  !.deadline = now + CollectWindow]]
           ELSE nostr' = [nostr EXCEPT ![c] =
                    NostrCatch([fresh EXCEPT !.pools = 1, !.poolsCreated = 1])]

\* sub.on('event') callback (lines 193-197); with no pattern for the tab the
\* callback throws before the push
NostrEvent(c, e) ==
    /\ nostr[c].pc = "collecting"
    /\ nostr[c].subs > 0
    /\ IF Defined(nostrSearchPatterns, nostr[c].tab) /\ Matches(nostr[c].tab, e.content)
       THEN /\ Len(nostr[c].collected) < MaxCollected
            /\ nostr' = [nostr EXCEPT ![c].collected = Append(@, e), ![c].seen = e.id]
       ELSE nostr' = [nostr EXCEPT ![c].seen = e.id]
    /\ UNCHANGED <<clockVars, bucketVars, nostrCache, bsky, masto, req, client>>

\* how far Date.now() may be short of the delay when a timer callback runs (ms)
TimerEarly == 1

\* mutant: the deadline only resolves once the stream has gone quiet
TimerDue_WhenQuiet(c) ==
    nostr[c].pc = "collecting" /\ nostr[c].timers > 0
        /\ now >= nostr[c].deadline - TimerEarly /\ nostr[c].seen = 0

\* the setTimeout of line 199 is due: the event loop runs the callback when
\* its own clock has counted the delay, which Date.now() may show as 1 ms less
TimerDue(c) ==
    nostr[c].pc = "collecting" /\ nostr[c].timers > 0
        /\ now >= nostr[c].deadline - TimerEarly

\* the timer callback (lines 199-202) and the rest of fetchNostrPosts
\* (lines 205-222)
NostrTimer(c) ==
    LET n == nostr[c]
        unsub == [n EXCEPT !.subs = 0, !.timers = 0, !.fired = @ + 1]
    IN  /\ TimerDue(c)
        /\ IF ProcessingThrows(n.collected)
           THEN /\ nostr' = [nostr EXCEPT ![c] = NostrCatch(unsub)]
                /\ UNCHANGED nostrCache
           ELSE /\ nostr' = [nostr EXCEPT ![c] =
                        [unsub EXCEPT !.pc = "done", !.pools = 0,
                                      !.result = ProcessedEvents(n.collected)]]
                /\ nostrCache' = CacheSet(nostrCache, n.tab, ProcessedEvents(n.collected), now)
        /\ UNCHANGED <<clockVars, bucketVars, bsky, masto, req, client>>

\* time passes until the earliest pending timer is due: Date.now() is then at
\* its deadline or 1 ms short of it
AdvanceToTimer ==
    LET due == {nostr[c].deadline : c \in {s \in Slots : nostr[s].pc = "collecting"}}
        first == CHOOSE d \in due : \A x \in due : d <= x
    IN  /\ due # {}
        /\ \A d \in due : d - TimerEarly > now
        /\ now' \in {first - TimerEarly, first}
        /\ ticks' = ticks + 1
        /\ burst' = <<>>
        /\ prev' = IF burst # <<>> THEN burst ELSE prev
        /\ prevAt' = IF burst # <<>> THEN now ELSE prevAt
        /\ UNCHANGED <<tokenBucket, acq, nostrCache, bsky, nostr, masto, req, client>>

\* the periodic check of the cache runs (the cache re-arms its timer after
\* every run, the first at its construction): any instant from the first
\* period on may be one at which it runs; a run that finds no entry past its
\* expiry changes nothing
CheckData ==
    /\ now >= CheckPeriod * 1000 - TimerEarly
    /\ nostrCache' = CacheCheck(nostrCache, now)
    /\ nostrCache' # nostrCache
    /\ UNCHANGED <<clockVars, bucketVars, bsky, nostr, masto, req, client>>

InitNostr == nostr = [c \in Slots |-> IdleNostr]

(***************************************************************************)
(* fetchMastodonPosts.  The upstream answers each search request with one  *)
(* of the kinds below; the statuses of a page are determined by its kind   *)
(* and its position.  An id is a positive number, or 0 for an id that is   *)
(* falsy in the code (an empty string, 0, or none at all).                 *)
(***************************************************************************)
PageKinds == {"full", "full_noid", "short", "empty", "nostatuses"}
ErrorKinds == {"http_error", "network_error", "bad_json"}

\* the content of the status with a given id
ContentOf(id) ==
    CASE id % 3 = 1 -> TextGov
      [] id % 3 = 2 -> TextArxiv
      [] OTHER -> TextPlain

\* a page of postsPerPage statuses; in a full_noid page the last has a falsy id
FullKinds == {"full", "full_noid"}

PageLen(kind) ==
    CASE kind \in FullKinds -> PostsPerPage
      [] kind = "short" -> ShortLen
      [] OTHER -> 0

\* data.statuses of the response to the request for page number page (from 0)
PageOf(kind, page) ==
    [i \in 1 .. PageLen(kind) |->
        [id |-> IF kind = "full_noid" /\ i = PostsPerPage THEN 0 ELSE page * PostsPerPage + i,
         content |-> ContentOf(page * PostsPerPage + i)]]

(***************************************************************************)
(* The search query of fetchMastodonPosts (lines 231-232).  A string is a  *)
(* sequence of characters; patternSources holds RegExp.prototype.source of *)
(* the seven patterns of lines 83-89, character by character (the literal  *)
(* between the slashes; the slash stays escaped in it).                    *)
(***************************************************************************)
patternSources ==
    <<
         << "\\", ".", "g", "o", "v", "\\", "/", "|", "b", "e", "a", "\\",
            ".", "g", "o", "v", "|", "s", "t", "l", "o", "u", "i", "s", "f",
            "e", "d", "\\", ".", "o", "r", "g", "|", "w", "o", "r", "l", "d",
            "b", "a", "n", "k", "\\", ".", "o", "r", "g", "|", "b", "l", "s",
            "\\", ".", "g", "o", "v", "|", "i", "m", "f", "\\", ".", "o",
            "r", "g", "|", "o", "e", "c", "d", "\\", ".", "o", "r", "g", "|",
            "e", "u", "r", "o", "p", "a", "\\", ".", "e", "u", "\\", "/",
            "e", "u", "r", "o", "s", "t", "a", "t", "|", "u", "n", "s", "t",
            "a", "t", "s", "\\", ".", "u", "n", "\\", ".", "o", "r", "g",
            "|", "a", "r", "x", "i", "v", "\\", ".", "o", "r", "g", "|", "n",
            "i", "h", "\\", ".", "g", "o", "v", "|", "n", "a", "s", "a",
            "\\", ".", "g", "o", "v", "|", "s", "c", "i", "e", "n", "c", "e",
            "\\", ".", "o", "r", "g", "|", "c", "e", "l", "l", "\\", ".",
            "c", "o", "m", "|", "p", "n", "a", "s", "\\", ".", "o", "r", "g" >>,
         << "\\", ".", "g", "o", "v", "\\", "/" >>,
         << "b", "e", "a", "\\", ".", "g", "o", "v", "|", "s", "t", "l", "o",
            "u", "i", "s", "f", "e", "d", "\\", ".", "o", "r", "g", "|", "w",
            "o", "r", "l", "d", "b", "a", "n", "k", "\\", ".", "o", "r", "g",
            "|", "b", "l", "s", "\\", ".", "g", "o", "v", "|", "i", "m", "f",
            "\\", ".", "o", "r", "g", "|", "o", "e", "c", "d", "\\", ".",
            "o", "r", "g", "|", "e", "u", "r", "o", "p", "a", "\\", ".", "e",
            "u", "\\", "/", "e", "u", "r", "o", "s", "t", "a", "t", "|", "u",
            "n", "s", "t", "a", "t", "s", "\\", ".", "u", "n", "\\", ".",
            "o", "r", "g" >>,
         << "a", "r", "x", "i", "v", "\\", ".", "o", "r", "g", "|", "n", "i",
            "h", "\\", ".", "g", "o", "v", "|", "n", "a", "s", "a", "\\",
            ".", "g", "o", "v", "|", "s", "c", "i", "e", "n", "c", "e", "\\",
            ".", "o", "r", "g", "|", "c", "e", "l", "l", "\\", ".", "c", "o",
            "m", "|", "p", "n", "a", "s", "\\", ".", "o", "r", "g" >>,
         << "i", "m", "d", "b", "\\", ".", "c", "o", "m", "|", "r", "o", "t",
            "t", "e", "n", "t", "o", "m", "a", "t", "o", "e", "s", "\\", ".",
            "c", "o", "m", "|", "n", "e", "t", "f", "l", "i", "x", "\\", ".",
            "c", "o", "m", "|", "h", "u", "l", "u", "\\", ".", "c", "o", "m",
            "|", "a", "m", "a", "z", "o", "n", "\\", ".", "c", "o", "m",
            "\\", "/", "g", "p", "\\", "/", "v", "i", "d", "e", "o", "\\",
            "/", "|", "p", "l", "a", "y", "\\", ".", "m", "a", "x", "\\",
            ".", "c", "o", "m" >>,
         << "p", "o", "d", "c", "a", "s", "t", "s", "\\", ".", "a", "p", "p",
            "l", "e", "\\", ".", "c", "o", "m", "|", "o", "p", "e", "n",
            "\\", ".", "s", "p", "o", "t", "i", "f", "y", "\\", ".", "c",
            "o", "m", "\\", "/", "e", "p", "i", "s", "o", "d", "e", "\\",
            "/", "|", "o", "p", "e", "n", "\\", ".", "s", "p", "o", "t", "i",
            "f", "y", "\\", ".", "c", "o", "m", "\\", "/", "s", "h", "o",
            "w", "\\", "/" >>,
         << "s", "p", "o", "t", "i", "f", "y", "\\", ".", "c", "o", "m",
            "\\", "/", "a", "r", "t", "i", "s", "t", "|", "s", "p", "o", "t",
            "i", "f", "y", "\\", ".", "c", "o", "m", "\\", "/", "t", "r",
            "a", "c", "k", "|", "s", "p", "o", "t", "i", "f", "y", "\\", ".",
            "c", "o", "m", "\\", "/", "a", "l", "b", "u", "m", "|", "m", "u",
            "s", "i", "c", "\\", ".", "a", "p", "p", "l", "e", "\\", ".",
            "c", "o", "m", "|", "s", "o", "u", "n", "d", "c", "l", "o", "u",
            "d", "\\", ".", "c", "o", "m" >>
    >>

RECURSIVE UnescapeDotsIn(_, _, _)
\* s.replace(/\\\./g, '.') on the characters lo .. hi of s: a backslash that a
\* dot follows is dropped (the halves are done apart and joined)
UnescapeDotsIn(s, lo, hi) ==
    IF lo > hi THEN <<>>
    ELSE IF lo = hi
         THEN (IF s[lo] = "\\" /\ lo < Len(s) /\ s[lo + 1] = "." THEN <<>> ELSE <<s[lo]>>)
         ELSE UnescapeDotsIn(s, lo, (lo + hi) \div 2)
                \o UnescapeDotsIn(s, (lo + hi) \div 2 + 1, hi)

RECURSIVE BarsToOrIn(_, _, _)
\* s.replace(/\|/g, ' OR ') on the characters lo .. hi of s
BarsToOrIn(s, lo, hi) ==
    IF lo > hi THEN <<>>
    ELSE IF lo = hi
         THEN (IF s[lo] = "|" THEN <<" ", "O", "R", " ">> ELSE <<s[lo]>>)
         ELSE BarsToOrIn(s, lo, (lo + hi) \div 2) \o BarsToOrIn(s, (lo + hi) \div 2 + 1, hi)

UnescapeDots(s) == UnescapeDotsIn(s, 1, Len(s))
BarsToOr(s) == BarsToOrIn(s, 1, Len(s))

\* line 232: searchPattern.source.replace(/\\\./g, '.').replace(/\|/g, ' OR ')
SearchQuery(tab) == BarsToOr(UnescapeDots(At(patternSources, tab)))

\* the same, tabulated for the tabs that have a pattern
SearchQueries == [tab \in 0 .. (Len(patternSources) - 1) |-> SearchQuery(tab)]

(***************************************************************************)
(* fetchMastodonPosts: the invocation.                                     *)
(***************************************************************************)
\* let maxId = null (line 235); in m.sent, a request that carries no max_id
Null == -1

\* line 247: ...(maxId && { max_id: maxId }), the max_id a request carries
MaxIdParam(maxId) == IF maxId > 0 THEN maxId ELSE Null

IdleMasto ==
    [pc |-> "idle", tab |-> 0, query |-> <<>>, page |-> 0, maxId |-> Null, allPosts |-> <<>>,
     reqs |-> 0, sent |-> <<>>, pages |-> <<>>, result |-> <<>>, failed |-> FALSE]

\* mutant: the page is accumulated as the upstream sent it
FilteredPosts_All(tab, statuses) == statuses

\* data.statuses.filter(post => searchPattern.test(post.content))
FilteredPosts(tab, statuses) == SelectSeq(statuses, LAMBDA p : Matches(tab, p.content))

\* mutant: the catch block returns what was accumulated
MastoFail_Partial(m) == [m EXCEPT !.pc = "done", !.failed = TRUE, !.result = m.allPosts]

\* the catch block (lines 293-296)
MastoFail(m) == [m EXCEPT !.pc = "done", !.failed = TRUE, !.result = <<>>]

\* fetchMastodonPosts(tab) up to its first suspension point (lines 226-250).
\* With no pattern for the tab, line 232 throws outside the try block and the
\* promise the function returns is rejected.  hasFetch: the runtime defines
\* the global fetch of line 250 (Node 18 and later do); where it does not
\* (the node:16 image the Dockerfile builds on) line 250 throws a
\* ReferenceError inside the try block before any request is made, and the
\* catch block returns [].
FetchMastodonStart(c, tab, hasFetch) ==
    LET m == [IdleMasto EXCEPT !.tab = tab, !.query = SearchQueries[tab]]
    IN  /\ masto[c].pc \in {"idle", "done", "rejected"}
        /\ IF ~Defined(nostrSearchPatterns, tab)
           THEN masto' = [masto EXCEPT ![c] = [IdleMasto EXCEPT !.pc = "rejected", !.tab = tab]]
           ELSE IF hasFetch
           THEN masto' = [masto EXCEPT ![c] =
                    [m EXCEPT !.pc = "waiting", !.reqs = 1, !.sent = <<MaxIdParam(m.maxId)>>]]
           ELSE masto' = [masto EXCEPT ![c] = MastoFail(m)]

\* the loop is left (break, or page = maxPages): lines 280-292
MastoReturn(m) == [m EXCEPT !.pc = "done", !.result = m.allPosts]

\* mutant: a partial page does not end the loop
MastoLastPage_Never(statuses) == FALSE

\* line 273
MastoLastPage(statuses) == Len(statuses) < PostsPerPage

\* mutant: the page budget is checked one page late
MastoBudgetLeft_OffByOne(page) == page <= MaxPages

\* the loop condition of line 240
MastoBudgetLeft(page) == page < MaxPages

\* line 277: maxId = data.statuses[data.statuses.length - 1].id
NextMaxId(tab, statuses) == statuses[Len(statuses)].id

\* the response to the pending search request arrives: the rest of the loop
\* body (lines 257-277) and, when the loop goes on, the next request
MastodonResponse(c, kind) ==
    LET m == [masto[c] EXCEPT !.pages = Append(@, kind)]
        statuses == PageOf(kind, m.page)
        more == [m EXCEPT !.allPosts = @ \o FilteredPosts(m.tab, statuses)]
    IN  /\ masto[c].pc = "waiting"
        /\ masto' = [masto EXCEPT ![c] =
              IF kind \in ErrorKinds THEN MastoFail(m)
              ELSE IF kind = "nostatuses" \/ Len(statuses) = 0 THEN MastoReturn(m)
              ELSE IF MastoLastPage(statuses) THEN MastoReturn(more)
              ELSE IF MastoBudgetLeft(m.page + 1)
                   THEN [more EXCEPT !.maxId = NextMaxId(m.tab, statuses),
                                     !.page = @ + 1,
                                     !.reqs = @ + 1,
                                     !.sent = Append(@, MaxIdParam(NextMaxId(m.tab, statuses)))]
                   ELSE MastoReturn([more EXCEPT !.maxId = NextMaxId(m.tab, statuses),
                                                 !.page = @ + 1])]
        /\ UNCHANGED <<clockVars, bucketVars, nostrCache, bsky, nostr, req, client>>

InitMasto == masto = [c \in Slots |-> IdleMasto]

(***************************************************************************)
(* fetchBlueskyPosts.                                                      *)
(***************************************************************************)
\* feeds the upstream may return (data.feed)
BlueskyFeeds ==
    { <<>>,
      << [id |-> 101, content |-> TextGov], [id |-> 102, content |-> TextPlain] >> }

IdleBsky ==
    [pc |-> "idle", tab |-> 0, token |-> FALSE, acquires |-> 0, logins |-> 0,
     feedReqs |-> 0, items |-> <<>>, result |-> <<>>, failed |-> FALSE]

\* mutant: the fetch goes on to log in whatever getToken returned
BlueskyAfterToken_Ignore(b, ok) == [b EXCEPT !.token = ok, !.pc = "login", !.logins = 1]

\* lines 95-106: return [] without a token, else start agent.login
BlueskyAfterToken(b, ok) ==
    IF ok
    THEN [b EXCEPT !.token = TRUE, !.pc = "login", !.logins = 1]
    ELSE [b EXCEPT !.token = FALSE, !.pc = "done", !.result = <<>>]

\* fetchBlueskyPosts(tab) up to its first suspension point (lines 93-106)
FetchBlueskyStart(c, tab) ==
    /\ bsky[c].pc \in {"idle", "done"}
    /\ \E ok \in BOOLEAN :
          /\ Acquire(ok)
          /\ bsky' = [bsky EXCEPT ![c] =
                BlueskyAfterToken([IdleBsky EXCEPT !.tab = tab, !.acquires = 1], ok)]

\* the catch block (lines 151-154)
BlueskyFail(b) == [b EXCEPT !.pc = "done", !.failed = TRUE, !.result = <<>>]

\* agent.login settles (lines 103-108); on success getFeed is requested
BlueskyLogin(c, ok) ==
    /\ bsky[c].pc = "login"
    /\ bsky' = [bsky EXCEPT ![c] =
          IF ok THEN [@ EXCEPT !.pc = "feed", !.feedReqs = 1] ELSE BlueskyFail(@)]
    /\ UNCHANGED <<clockVars, bucketVars, nostrCache, nostr, masto, req, client>>

\* getFeed settles (lines 108-124): the call goes on whenever the upstream
\* answers, also for a tab with no feed link (feed: undefined is then sent)
BlueskyFeed(c, ok, items) ==
    /\ bsky[c].pc = "feed"
    /\ bsky' = [bsky EXCEPT ![c] =
          IF ok
          THEN [@ EXCEPT !.pc = "facets", !.items = items]
          ELSE BlueskyFail(@)]
    /\ UNCHANGED <<clockVars, bucketVars, nostrCache, nostr, masto, req, client>>

\* the Promise.all over detectFacets and the segmentation settles
\* (lines 121-150)
BlueskyFacets(c, ok) ==
    /\ bsky[c].pc = "facets"
    /\ bsky' = [bsky EXCEPT ![c] =
          IF ok THEN [@ EXCEPT !.pc = "done", !.result = bsky[c].items] ELSE BlueskyFail(@)]
    /\ UNCHANGED <<clockVars, bucketVars, nostrCache, nostr, masto, req, client>>

InitBsky == bsky = [c \in Slots |-> IdleBsky]

(***************************************************************************)
(* The /api/feed handler.  The activeTab query value is a string, modelled *)
(* as a sequence of characters; a missing value reads undefined, which     *)
(* parseInt turns into the string "undefined".                             *)
(***************************************************************************)
\* the digits of the radixes parseInt may read here, by value (from 0)
DigitChars ==
    <<"0", "1", "2", "3", "4", "5", "6", "7", "8", "9", "a", "b", "c", "d", "e", "f">>
UpperDigitChars ==
    <<"0", "1", "2", "3", "4", "5", "6", "7", "8", "9", "A", "B", "C", "D", "E", "F">>
DigitVal(ch) ==
    (CHOOSE d \in DOMAIN DigitChars : DigitChars[d] = ch \/ UpperDigitChars[d] = ch) - 1
IsDigit(ch, radix) ==
    \E d \in 1 .. radix : DigitChars[d] = ch \/ UpperDigitChars[d] = ch

\* the white space parseInt skips: blank, tab, line feed, carriage return,
\* form feed, and (written by name or code point, having no escape here)
\* vertical tab, no-break space, byte order mark, line and paragraph
\* separator and the other Unicode space separators
WhiteSpace ==
    { " ", "\t", "\n", "\r", "\f", "VT", "NBSP", "BOM", "LS", "PS",
      "U+1680", "U+2000", "U+2001", "U+2002", "U+2003", "U+2004", "U+2005", "U+2006",
      "U+2007", "U+2008", "U+2009", "U+200A", "U+202F", "U+205F", "U+3000" }

Undefined == <<"u", "n", "d", "e", "f", "i", "n", "e", "d">>

RECURSIVE SkipSpaces(_, _)
SkipSpaces(s, i) == IF i <= Len(s) /\ s[i] \in WhiteSpace THEN SkipSpaces(s, i + 1) ELSE i

RECURSIVE ParseDigits(_, _, _, _, _)
\* the digits of s in the radix, from position i on: [nan, val], val being
\* the integer the digits denote, before it is made a Number
ParseDigits(s, i, radix, acc, any) ==
    IF i <= Len(s) /\ IsDigit(s[i], radix)
    THEN ParseDigits(s, i + 1, radix, acc * radix + DigitVal(s[i]), TRUE)
    ELSE [nan |-> ~any, val |-> acc]

\* the bits of the significand of a Number (a double)
SignificandBits == 53

\* the power of two past the largest Number: a value that rounds up to it
\* becomes Infinity, which this integer stands for
Infinity == 2 ^ 1024

RECURSIVE BitLength(_)
\* the number of binary digits of n >= 0
BitLength(n) == IF n < 2 THEN 1 ELSE 1 + BitLength(n \div 2)

\* the Number for the integer n >= 0: n itself up to 53 bits, and beyond that
\* the nearest multiple of 2^(BitLength(n) - 53), the even one on a tie
ToNumber(n) ==
    IF BitLength(n) <= SignificandBits
    THEN n
    ELSE LET unit == 2 ^ (BitLength(n) - SignificandBits)
             q == n \div unit
             r == n % unit
             up == 2 * r > unit \/ (2 * r = unit /\ q % 2 = 1)
             rounded == (IF up THEN q + 1 ELSE q) * unit
         IN  IF rounded >= Infinity THEN Infinity ELSE rounded

\* parseInt(s) with no radix: leading white space, a sign, then the longest
\* run of digits, hexadecimal after a 0x or 0X prefix and decimal otherwise;
\* the result is a Number
ParseInt(s) ==
    LET i == SkipSpaces(s, 1)
        signed == i <= Len(s) /\ s[i] \in {"-", "+"}
        neg == i <= Len(s) /\ s[i] = "-"
        j == IF signed THEN i + 1 ELSE i
        hex == j + 1 <= Len(s) /\ s[j] = "0" /\ s[j + 1] \in {"x", "X"}
        p == IF hex THEN ParseDigits(s, j + 2, 16, 0, FALSE)
             ELSE ParseDigits(s, j, 10, 0, FALSE)
    IN  [nan |-> p.nan, val |-> IF neg THEN 0 - ToNumber(p.val) ELSE ToNumber(p.val)]

\* line 301: parseInt(req.query.activeTab) || 0 (NaN and 0 are falsy;
\* Infinity is not)
ActiveTabOf(q) == IF ParseInt(q).nan THEN 0 ELSE ParseInt(q).val

\* activeTab query values of the requests
Queries ==
    { Undefined, <<"0">>, <<"1">>, <<"7">>, <<"-", "1">>, <<"a", "b">>, <<" ", "1", "x">>,
      <<"0", "x", "7">>, <<"\t", "7">>, <<"0", "x">>, <<"U+3000", "7">> }

\* served: how many requests the slot has taken (history)
IdleReq ==
    [pc |-> "idle", tab |-> 0, status |-> 0, served |-> 0,
     body |-> [blueskyFeed |-> <<>>, nostrFeed |-> <<>>, mastodonFeed |-> <<>>]]

\* lines 300-311: the handler up to the await of Promise.all; the three
\* fetchers are called in turn and each runs to its first suspension point.
\* A slot holds one request and its three calls; it takes the next request
\* once the response was sent and the calls are over.
HandleFeed(r, q, subOk, hasFetch) ==
    /\ req[r].pc \in {"idle", "responded"}
    /\ req[r].served < MaxFeedRequests
    /\ bsky[r].pc \in {"idle", "done"} /\ nostr[r].pc \in {"idle", "done"}
    /\ masto[r].pc \in {"idle", "done", "rejected"}
    /\ FetchBlueskyStart(r, ActiveTabOf(q))
    /\ FetchNostrStart(r, ActiveTabOf(q), subOk)
    /\ FetchMastodonStart(r, ActiveTabOf(q), hasFetch)
    /\ req' = [req EXCEPT ![r] = [IdleReq EXCEPT !.pc = "pending", !.tab = ActiveTabOf(q),
                                                 !.served = req[r].served + 1]]
    /\ UNCHANGED <<clockVars, client>>

\* Promise.all has settled
AllSettled(r) ==
    \/ masto[r].pc = "rejected"
    \/ bsky[r].pc = "done" /\ nostr[r].pc = "done" /\ masto[r].pc = "done"

\* lines 313-322: the response is sent, 200 with the three lists or, when a
\* fetcher rejected, the 500 error envelope
Respond(r) ==
    /\ req[r].pc = "pending"
    /\ AllSettled(r)
    /\ req' = [req EXCEPT ![r] =
          IF masto[r].pc = "rejected"
          THEN [@ EXCEPT !.pc = "responded", !.status = 500]
          ELSE [@ EXCEPT !.pc = "responded", !.status = 200,
                         !.body = [blueskyFeed |-> bsky[r].result,
                                   nostrFeed |-> nostr[r].result,
                                   mastodonFeed |-> masto[r].result]]]
    /\ UNCHANGED <<clockVars, bucketVars, nostrCache, bsky, nostr, masto, client>>

InitReq == req = [r \in Slots |-> IdleReq]

(***************************************************************************)
(* The App component of the client (src/client/src/App.js): the feed       *)
(* effect of lines 63-90.  A request in flight is the tab it asked for;    *)
(* feed is the tab whose lists setFeed stored, or NoFeed for the empty     *)
(* lists.                                                                  *)
(***************************************************************************)
NoFeed == -1
ClientTabs == {0, 1, 2}
Pages == {"main", "bookmarks"}

\* the effect body up to the await of line 71, for the tab rendered
RunFeedEffect(cl) ==
    [cl EXCEPT !.loading = TRUE, !.errors = FALSE, !.feed = NoFeed,
               !.issued = @ + 1,
               !.inflight = @ \cup {[id |-> cl.issued + 1, tab |-> cl.activeTab]}]

\* onClick of a tab button (line 361): setActiveTab(index); the buttons are
\* rendered on the main page only (line 358), and the effect runs again when
\* activeTab changed
ClickTab(t) ==
    /\ client.currentPage = "main"
    /\ t # client.activeTab
    /\ client.issued < MaxRequests
    /\ client' = RunFeedEffect([client EXCEPT !.activeTab = t])
    /\ UNCHANGED serverVars

\* onClick of a page button (lines 331-334): setCurrentPage(page)
ClickPage(p) ==
    /\ p # client.currentPage
    /\ p = "main" => client.issued < MaxRequests
    /\ client' = IF p = "main"
                 THEN RunFeedEffect([client EXCEPT !.currentPage = p])
                 ELSE [client EXCEPT !.currentPage = p]
    /\ UNCHANGED serverVars

\* the fetch of request r settles (lines 71-86): setFeed(data) on a 2xx
\* answer with a JSON body, setErrors otherwise, setLoading(false) at last
FeedArrives(cl, r, ok) ==
    IF ok
    THEN [cl EXCEPT !.feed = r.tab, !.loading = FALSE, !.inflight = @ \ {r}]
    ELSE [cl EXCEPT !.errors = TRUE, !.loading = FALSE, !.inflight = @ \ {r}]

FetchSettles(r, ok) ==
    /\ r \in client.inflight
    /\ client' = FeedArrives(client, r, ok)
    /\ UNCHANGED serverVars

\* the component is mounted on the main page with tab 0: the effect has run
InitClient ==
    client = [activeTab |-> 0, currentPage |-> "main", feed |-> NoFeed, loading |-> TRUE,
              errors |-> FALSE, issued |-> 1, inflight |-> {[id |-> 1, tab |-> 0]}]

Init ==
    /\ InitClock /\ InitBucket /\ InitCache /\ InitNostr /\ InitMasto /\ InitBsky /\ InitReq
    /\ InitClient

(***************************************************************************)
(* Specification of the token bucket alone: getToken called at arbitrary   *)
(* non-decreasing times.                                                   *)
(***************************************************************************)
BucketDeltas == {1, RefillRate - 1, RefillRate, 2 * RefillRate, 6 * RefillRate}

BucketTick ==
    /\ \E d \in BucketDeltas : Tick(d)
    /\ UNCHANGED <<nostrCache, bsky, nostr, masto, req, client>>

GetTokenCall ==
    /\ \E ok \in BOOLEAN : Acquire(ok)
    /\ UNCHANGED <<clockVars, nostrCache, bsky, nostr, masto, req, client>>

NextBucket == BucketTick \/ GetTokenCall

SpecBucket == Init /\ [][NextBucket]_vars

(***************************************************************************)
(* Specification of fetchMastodonPosts alone: one invocation at a time,    *)
(* against an upstream that answers each request in any of the ways.       *)
(***************************************************************************)
MastoTabs == {0, 1, 7}

MastoFetch ==
    /\ \E tab \in MastoTabs, hasFetch \in BOOLEAN : FetchMastodonStart(1, tab, hasFetch)
    /\ UNCHANGED <<clockVars, bucketVars, nostrCache, bsky, nostr, req, client>>

MastoResponse == \E kind \in PageKinds \cup ErrorKinds : MastodonResponse(1, kind)

NextMastodon == MastoFetch \/ MastoResponse

SpecMastodon == Init /\ [][NextMastodon]_vars

(***************************************************************************)
(* The same for every tab that has a pattern, for the search query.        *)
(***************************************************************************)
QueryTabs == 0 .. (Len(nostrSearchPatterns) - 1)

QueryFetch ==
    /\ \E tab \in QueryTabs, hasFetch \in BOOLEAN : FetchMastodonStart(1, tab, hasFetch)
    /\ UNCHANGED <<clockVars, bucketVars, nostrCache, bsky, nostr, req, client>>

NextQuery == QueryFetch \/ MastoResponse

SpecQuery == Init /\ [][NextQuery]_vars

(***************************************************************************)
(* Specification of fetchNostrPosts alone: one invocation at a time, with  *)
(* the clock, the relays' events, the collection timer and the periodic    *)
(* check of the cache.                                                     *)
(***************************************************************************)
NostrTabs == {0, 3}
NostrDeltas == {StdTTL * 1000 - 1, StdTTL * 1000}
NostrEvents == {e \in Events : e.id \in {3, 4}}

NostrTick ==
    /\ \E d \in NostrDeltas : Tick(d)
    /\ UNCHANGED <<nostrCache, bsky, nostr, masto, req, client>>

NostrFetch ==
    /\ \E tab \in NostrTabs, subOk \in BOOLEAN : FetchNostrStart(1, tab, subOk)
    /\ UNCHANGED <<clockVars, bucketVars, bsky, masto, req, client>>

RelayEvent == \E e \in NostrEvents : NostrEvent(1, e)

DeadlineFires == NostrTimer(1)

NextNostr ==
    NostrTick \/ AdvanceToTimer \/ NostrFetch \/ RelayEvent \/ DeadlineFires \/ CheckData

SpecNostr == Init /\ [][NextNostr]_vars

(***************************************************************************)
(* The same with fairness, for the collection deadline: the event loop     *)
(* runs a due timer, and time does not stop before a pending deadline.     *)
(* Fetches are for one tab, so that the relays' streams and the clock make *)
(* up the state space.                                                     *)
(***************************************************************************)
DeadlineTabs == {0}
DeadlineDeltas == {1, StdTTL * 1000}

DeadlineTick ==
    /\ \E d \in DeadlineDeltas : Tick(d)
    /\ UNCHANGED <<nostrCache, bsky, nostr, masto, req, client>>

DeadlineFetch ==
    /\ \E tab \in DeadlineTabs, subOk \in BOOLEAN : FetchNostrStart(1, tab, subOk)
    /\ UNCHANGED <<clockVars, bucketVars, bsky, masto, req, client>>

NextDeadline ==
    DeadlineTick \/ AdvanceToTimer \/ DeadlineFetch \/ RelayEvent \/ DeadlineFires
        \/ CheckData

FairSpecNostr ==
    Init /\ [][NextDeadline]_vars /\ WF_vars(AdvanceToTimer) /\ WF_vars(DeadlineFires)

(***************************************************************************)
(* Specification of fetchBlueskyPosts alone.                               *)
(***************************************************************************)
BskyTabs == {0, 7, -1}
BskyDeltas == {RefillRate - 1, RefillRate}

BskyTick ==
    /\ \E d \in BskyDeltas : Tick(d)
    /\ UNCHANGED <<nostrCache, bsky, nostr, masto, req, client>>

BskyFetch ==
    /\ \E tab \in BskyTabs : FetchBlueskyStart(1, tab)
    /\ UNCHANGED <<clockVars, nostrCache, nostr, masto, req, client>>

LoginSettles == \E ok \in BOOLEAN : BlueskyLogin(1, ok)

FeedSettles == \E ok \in BOOLEAN, items \in BlueskyFeeds : BlueskyFeed(1, ok, items)

FacetsSettle == \E ok \in BOOLEAN : BlueskyFacets(1, ok)

NextBluesky == BskyTick \/ BskyFetch \/ LoginSettles \/ FeedSettles \/ FacetsSettle

SpecBluesky == Init /\ [][NextBluesky]_vars

(***************************************************************************)
(* Specification of the server: /api/feed requests one after the other,    *)
(* each with its three fetchers interleaved; a later request finds the     *)
(* bucket and the cache as the earlier ones left them.  The clock moves    *)
(* with the collection timers only, so no entry expires and the periodic   *)
(* check of the cache never comes due.                                     *)
(***************************************************************************)
FeedEvents == {e \in Events : e.id \in {1, 2}}
FeedKinds == {"short", "http_error"}

Request == \E q \in Queries, subOk, hasFetch \in BOOLEAN : HandleFeed(1, q, subOk, hasFetch)

Response == Respond(1)

FeedRelayEvent == \E e \in FeedEvents : NostrEvent(1, e)

FeedSearchResponse == \E kind \in FeedKinds : MastodonResponse(1, kind)

Next ==
    \/ Request
    \/ Response
    \/ LoginSettles
    \/ FeedSettles
    \/ FacetsSettle
    \/ FeedRelayEvent
    \/ AdvanceToTimer
    \/ DeadlineFires
    \/ FeedSearchResponse

Spec == Init /\ [][Next]_vars

(***************************************************************************)
(* Claims about the token bucket (checked under SpecBucket).               *)
(***************************************************************************)
\* C3: in every reachable state the bucket holds between 0 and capacity (5)
\* tokens, whatever the times of the getToken calls and the idle gaps.
C3_TokenBounds == tokenBucket.tokens >= 0 /\ tokenBucket.tokens <= Capacity

\* C3 witness: a call made after an idle gap of more than capacity refill
\* intervals found the bucket refilled to the cap, and took one token.
C3_Witness ==
    /\ burst = <<TRUE>>
    /\ now >= 6 * RefillRate
    /\ tokenBucket.lastRefill = now
    /\ tokenBucket.tokens = Capacity - 1

\* the calls made at this instant so far: the first k succeeded, the others failed
BurstIs(k) == \A i \in DOMAIN burst : burst[i] = (i <= k)

\* the calls made at time 0 on the full bucket were at least six; the first
\* five succeeded and the later ones failed; no call was made since
Drained ==
    /\ prevAt = 0
    /\ Len(prev) >= InitialTokens + 1
    /\ \A i \in DOMAIN prev : prev[i] = (i <= InitialTokens)
    /\ now > 0

\* C4 as stated: from a full bucket five immediate calls succeed and the sixth
\* fails; after then waiting any time >= 60 s exactly one more call succeeds.
C4_Original ==
    /\ now = 0 => BurstIs(InitialTokens)
    /\ (Drained /\ now >= RefillRate) => BurstIs(1)

\* C4 amended: after then waiting d >= 60 s, exactly min(5, floor(d / 60 s))
\* more calls succeed: one when 60 s <= d < 120 s.
C4_Scenario ==
    /\ now = 0 => BurstIs(InitialTokens)
    /\ (Drained /\ now >= RefillRate) => BurstIs(Min(Capacity, now \div RefillRate))
    /\ (Drained /\ now >= RefillRate /\ now < 2 * RefillRate) => BurstIs(1)

\* C4 witness: the bucket was drained at time 0, 60 s passed, one call
\* succeeded and the next failed.
C4_Witness == Drained /\ now = RefillRate /\ burst = <<TRUE, FALSE>>

(***************************************************************************)
(* Claims about fetchMastodonPosts (checked under SpecMastodon).           *)
(* m.pages records the answers the upstream gave, m.reqs the requests the  *)
(* invocation issued; an invocation on a runtime without fetch issues none *)
(* and is served none.                                                     *)
(***************************************************************************)
NineFullThenShort == [k \in 1 .. MaxPages |-> IF k < MaxPages THEN "full" ELSE "short"]

\* C9: one invocation issues at most 10 search requests, issues request k+1
\* only after request k was answered with a full page, and is over after the
\* first empty or partial page; 9 full pages then a partial one make exactly
\* 10 requests, an empty first page makes an empty list with one request.
C9_Pagination ==
    \A c \in Slots :
        LET m == masto[c]
        IN  /\ m.reqs <= MaxPages
            /\ m.reqs = Len(m.pages) + (IF m.pc = "waiting" THEN 1 ELSE 0)
            /\ \A k \in DOMAIN m.pages : k < m.reqs => m.pages[k] \in FullKinds
            /\ (m.pages # <<>> /\ m.pages[Len(m.pages)] \notin FullKinds) => m.pc = "done"
            /\ m.pages = NineFullThenShort => (m.pc = "done" /\ m.reqs = MaxPages)
            /\ m.pages = <<"empty">> => (m.pc = "done" /\ m.result = <<>> /\ m.reqs = 1)

\* C9 witness: 9 full pages and a partial one were served, the invocation is
\* over after 10 requests and returned posts of every page.
C9_Witness ==
    /\ masto[1].pages = NineFullThenShort
    /\ masto[1].pc = "done"
    /\ masto[1].reqs = MaxPages
    /\ \E i \in DOMAIN masto[1].result :
          masto[1].result[i].id > (MaxPages - 1) * PostsPerPage

\* C10: once a page request is answered with a non-OK status (or fails), the
\* invocation is over with an empty list, whatever it had accumulated, and
\* has issued no request after the failed one; so is an invocation whose
\* request could not be made at all.
C10_FailureIsTotal ==
    \A c \in Slots :
        LET m == masto[c]
        IN  /\ (m.pages # <<>> /\ m.pages[Len(m.pages)] \in ErrorKinds) =>
                    /\ m.pc = "done" /\ m.failed
                    /\ m.result = <<>>
                    /\ m.reqs = Len(m.pages)
            /\ m.failed =>
                    /\ m.pc = "done"
                    /\ m.result = <<>>
                    /\ m.reqs = Len(m.pages)
                    /\ m.pages = <<>> \/ m.pages[Len(m.pages)] \in ErrorKinds

\* C10 witness: a third request failed with an HTTP error after two full
\* pages had contributed posts, and the invocation returned the empty list.
C10_Witness ==
    /\ masto[1].pages = <<"full", "full", "http_error">>
    /\ masto[1].allPosts # <<>>
    /\ masto[1].pc = "done"
    /\ masto[1].result = <<>>

(***************************************************************************)
(* Claims about fetchBlueskyPosts (checked under SpecBluesky).             *)
(***************************************************************************)
\* C5: an invocation whose getToken call returned false is over at once with
\* the empty list: it made no login and no feed request, and called getToken
\* once only.
C5_SoftRateLimit ==
    \A c \in Slots :
        LET b == bsky[c]
        IN  (b.acquires > 0 /\ ~b.token) =>
                /\ b.pc = "done"
                /\ b.result = <<>>
                /\ b.logins = 0
                /\ b.feedReqs = 0
                /\ b.acquires = 1

\* C5 witness: the bucket is empty and the invocation just made was refused
\* by getToken.
C5_Witness ==
    /\ tokenBucket.tokens = 0
    /\ burst # <<>> /\ ~burst[Len(burst)]
    /\ bsky[1].acquires = 1 /\ ~bsky[1].token
    /\ bsky[1].pc = "done"

(***************************************************************************)
(* Claims about fetchNostrPosts and the cache (checked under SpecNostr).   *)
(***************************************************************************)
\* a step in which slot c starts an invocation (one that ends in the same
\* record as the previous invocation left is not told apart from no step)
NostrStarts(c) == nostr[c].pc \in {"idle", "done"} /\ nostr'[c] # nostr[c]

\* C6: a fetch for tab t made less than 600 s after the entry for t was stored
\* returns the stored list, one made more than 600 s after is a miss, and no
\* fetch returns a list stored more than 600 s before.
C6_StartStep(c) ==
    LET e == nostrCache[nostr'[c].tab]
    IN  NostrStarts(c) =>
            /\ (e.has /\ now - e.at < StdTTL * 1000) =>
                    (nostr'[c].hit /\ nostr'[c].result = e.v)
            /\ (e.has /\ now - e.at > StdTTL * 1000) => ~nostr'[c].hit
            /\ nostr'[c].hit => (e.has /\ now - e.at <= StdTTL * 1000)

C6_CacheExpiry == [][\A c \in Slots : C6_StartStep(c)]_vars

\* C6 witness: a fetch made 1 ms short of 600 s after a non-empty list was
\* stored returned that list.
C6_Witness ==
    /\ nostr[1].hit
    /\ nostrCache[nostr[1].tab].has
    /\ now - nostrCache[nostr[1].tab].at = StdTTL * 1000 - 1
    /\ nostr[1].result = nostrCache[nostr[1].tab].v
    /\ nostr[1].result # <<>>

\* C7: an invocation that hit the cache created no pool, opened no
\* subscription and armed no timer, and returned the cached list; an
\* invocation opens a subscription only if the cache held no unexpired entry
\* for its tab when it looked.
C7_HitState(c) ==
    nostr[c].hit =>
        /\ nostr[c].pc = "done"
        /\ nostr[c].poolsCreated = 0
        /\ nostr[c].subsOpened = 0
        /\ nostr[c].timers = 0
        /\ nostr[c].fired = 0

C7_StartStep(c) ==
    LET e == nostrCache[nostr'[c].tab]
    IN  NostrStarts(c) =>
            /\ nostr'[c].hit => (e.has /\ nostr'[c].result = e.v)
            /\ nostr'[c].subsOpened > 0 => ~(e.has /\ ~Expired(e, now))

C7_HitSkipsRelays ==
    /\ [](\A c \in Slots : C7_HitState(c))
    /\ [][\A c \in Slots : C7_StartStep(c)]_vars

\* C7 witness: an invocation returned a cached non-empty list without a pool
\* or a subscription.
C7_Witness ==
    /\ nostr[1].hit
    /\ nostr[1].result # <<>>
    /\ nostr[1].poolsCreated = 0 /\ nostr[1].subsOpened = 0
    /\ nostr[1].pc = "done"

\* C8: on an uncached fetch with an open subscription the deadline timer fires
\* once, unsubscribes and resolves the collection, whatever has arrived: the
\* fetch always completes (under FairSpecNostr).
C8_State(c) ==
    /\ nostr[c].fired <= 1
    /\ nostr[c].pc = "collecting" =>
            (nostr[c].subs = 1 /\ nostr[c].timers = 1 /\ nostr[c].fired = 0)
    /\ (nostr[c].pc = "done" /\ nostr[c].subsOpened > 0) =>
            (nostr[c].fired = 1 /\ nostr[c].subs = 0 /\ nostr[c].timers = 0)

C8_Deadline ==
    /\ [](\A c \in Slots : C8_State(c))
    /\ \A c \in Slots :
          (nostr[c].pc = "collecting") ~> (nostr[c].pc = "done" /\ nostr[c].fired = 1)

\* C8 witness: the timer fired once and ended a collection during which
\* events had arrived and been retained up to the bound.
C8_Witness ==
    /\ nostr[1].pc = "done"
    /\ nostr[1].fired = 1
    /\ nostr[1].subs = 0
    /\ nostr[1].seen # 0
    /\ Len(nostr[1].collected) = MaxCollected

(***************************************************************************)
(* Claims about the /api/feed handler (checked under Spec).                *)
(***************************************************************************)
RECURSIVE PostsOfPages(_, _, _)
\* what the pages served to one invocation contribute, from page k on: a
\* function of that upstream's answers alone
PostsOfPages(tab, pages, k) ==
    IF k > Len(pages) \/ pages[k] \in ErrorKinds
    THEN <<>>
    ELSE FilteredPosts(tab, PageOf(pages[k], k - 1)) \o PostsOfPages(tab, pages, k + 1)

\* the three lists of a 200 response, each told from its own source's
\* upstream behaviour: empty for a failing source, and for a succeeding one
\* what that source delivered
ListsIsolated(r) ==
    /\ bsky[r].failed => req[r].body.blueskyFeed = <<>>
    /\ nostr[r].failed => req[r].body.nostrFeed = <<>>
    /\ masto[r].failed => req[r].body.mastodonFeed = <<>>
    /\ ~bsky[r].failed =>
          req[r].body.blueskyFeed = (IF bsky[r].token THEN bsky[r].items ELSE <<>>)
    /\ (~nostr[r].failed /\ ~nostr[r].hit) =>
          req[r].body.nostrFeed = ProcessedEvents(nostr[r].collected)
    /\ ~masto[r].failed =>
          req[r].body.mastodonFeed = PostsOfPages(masto[r].tab, masto[r].pages, 1)

\* C1: every /api/feed request is answered 200 with three lists, a failing
\* source's list empty and a succeeding source's list what that source
\* delivered, whichever other sources fail.
C1_FailureIsolation ==
    \A r \in Slots :
        req[r].pc = "responded" => (req[r].status = 200 /\ ListsIsolated(r))

\* what holds of the code: the same, for the requests whose tab index names a
\* pattern
FailureIsolationInRange ==
    \A r \in Slots :
        (req[r].pc = "responded" /\ Defined(nostrSearchPatterns, req[r].tab)) =>
            (req[r].status = 200 /\ ListsIsolated(r))

\* a request with sources failing and succeeding side by side was answered
IsolationSeen ==
    /\ req[1].pc = "responded"
    /\ nostr[1].failed /\ masto[1].failed /\ ~bsky[1].failed
    /\ req[1].body.blueskyFeed # <<>>

\* C2: no fetcher invocation rejects, for any tab index the handler passes, so
\* no request is answered with the 500 error envelope.
C2_FetchersTotal ==
    \A c \in Slots : masto[c].pc # "rejected" /\ req[c].status # 500

(***************************************************************************)
(* C11: what the three fetchers return for a tab, against the tab's        *)
(* pattern.                                                                *)
(***************************************************************************)
\* every post of the list carries content the pattern of the tab matches
OnlyMatching(tab, list) ==
    \A i \in DOMAIN list :
        Defined(nostrSearchPatterns, tab) /\ Matches(tab, list[i].content)

\* C11 as stated: the list of every fetcher, for every call, holds only posts
\* whose content matched the pattern of the call's tab.  fetchBlueskyPosts
\* returns the feed of the tab's feed generator without testing the posts
\* against the pattern, so this is violated.
C11_Original ==
    \A c \in Slots :
        /\ OnlyMatching(bsky[c].tab, bsky[c].result)
        /\ OnlyMatching(nostr[c].tab, nostr[c].result)
        /\ OnlyMatching(masto[c].tab, masto[c].result)

\* C11, amended: the relay list and the federated-search list of every call
\* hold only posts whose content matched the pattern of the call's tab, and so
\* does every list the cache holds under a tab (hence every list served from
\* it); the feed-generator list is returned as the upstream sent it.
C11_Classified ==
    /\ \A c \in Slots :
        /\ OnlyMatching(nostr[c].tab, nostr[c].result)
        /\ OnlyMatching(masto[c].tab, masto[c].result)
        /\ OnlyMatching(masto[c].tab, masto[c].allPosts)
        /\ bsky[c].pc = "done" /\ ~bsky[c].failed /\ bsky[c].token
              => bsky[c].result = bsky[c].items
    /\ \A k \in TabValues : OnlyMatching(k, nostrCache[k].v)

\* C11 witness: a second request for a tab was answered 200 with three
\* non-empty lists: the relay list was served from the cache, where the
\* first request had stored the one matching event among those the relays
\* sent; the search list is a filtered page; and the feed-generator list
\* holds a post the pattern does not match.
C11_Witness ==
    /\ req[1].served = 2 /\ req[1].status = 200
    /\ Defined(nostrSearchPatterns, req[1].tab)
    /\ nostr[1].hit /\ Len(nostr[1].result) = 1
    /\ nostrCache[nostr[1].tab].has /\ nostrCache[nostr[1].tab].v = nostr[1].result
    /\ req[1].body.nostrFeed = nostr[1].result
    /\ masto[1].result # <<>>
    /\ Len(masto[1].result) < Len(PageOf(masto[1].pages[1], 0))
    /\ \E i \in DOMAIN bsky[1].result :
          ~Matches(bsky[1].tab, bsky[1].result[i].content)

\* C12: for every /api/feed request, whatever its activeTab parameter, the tab
\* index the handler passes to the three fetchers is an integer that indexes
\* both nostrSearchPatterns and feedLinks.  The handler passes
\* parseInt(activeTab) || 0 as it is, so 7 and -1 go through: violated.
C12_TabIndexValid ==
    \A r \in Slots :
        req[r].pc # "idle" =>
            /\ bsky[r].tab = req[r].tab /\ nostr[r].tab = req[r].tab
            /\ masto[r].tab = req[r].tab
            /\ Defined(nostrSearchPatterns, req[r].tab)
            /\ Defined(feedLinks, req[r].tab)

\* what holds of the code: the index is an integer, a parameter that is
\* missing or does not start with a number gives index 0, and the fetchers
\* are all called with the handler's index
TabIndexParsed ==
    /\ ActiveTabOf(Undefined) = 0 /\ ActiveTabOf(<<"a", "b">>) = 0
    /\ ActiveTabOf(<<"7">>) = 7 /\ ActiveTabOf(<<"-", "1">>) = -1
    /\ \A r \in Slots :
          req[r].pc # "idle" =>
              /\ req[r].tab \in {ActiveTabOf(q) : q \in Queries}
              /\ bsky[r].tab = req[r].tab /\ nostr[r].tab = req[r].tab
              /\ masto[r].tab = req[r].tab

\* the three fetchers of request r that are over with a list
BskyOver(r) == bsky[r].pc = "done"
NostrOver(r) == nostr[r].pc = "done"
MastoOver(r) == masto[r].pc = "done"

\* C13: while a request is handled the three fetchers have all been started
\* (none waits for another), and the response is sent only after all three
\* have resolved.  With a tab index that names no pattern fetchMastodonPosts
\* rejects, Promise.all rejects at once and the 500 response is sent while the
\* other two fetchers are still at work: violated.
C13_ConcurrentDispatch ==
    \A r \in Slots :
        /\ req[r].pc # "idle" =>
              (bsky[r].pc # "idle" /\ nostr[r].pc # "idle" /\ masto[r].pc # "idle")
        /\ req[r].pc = "responded" => (BskyOver(r) /\ NostrOver(r) /\ MastoOver(r))

\* what holds of the code: the same for the requests whose tab index names a
\* pattern
DispatchInRange ==
    \A r \in Slots :
        /\ req[r].pc # "idle" =>
              (bsky[r].pc # "idle" /\ nostr[r].pc # "idle" /\ masto[r].pc # "idle")
        /\ (req[r].pc = "responded" /\ Defined(nostrSearchPatterns, req[r].tab)) =>
              (BskyOver(r) /\ NostrOver(r) /\ MastoOver(r))

(***************************************************************************)
(* Specification of overlapping requests' fetchBlueskyPosts calls: two     *)
(* calls in flight at a time, their getToken calls and their awaits        *)
(* interleaved in any order.  getToken is synchronous code, which the      *)
(* event loop runs to its end before any other callback.                   *)
(***************************************************************************)
OverlapTabs == {0}
OverlapDeltas == {RefillRate - 1, RefillRate}
OverlapFeeds == {f \in BlueskyFeeds : f # <<>>}

OverlapTick ==
    /\ \E d \in OverlapDeltas : Tick(d)
    /\ UNCHANGED <<nostrCache, bsky, nostr, masto, req, client>>

OverlapFetch ==
    /\ \E c \in Slots, tab \in OverlapTabs : FetchBlueskyStart(c, tab)
    /\ UNCHANGED <<clockVars, nostrCache, nostr, masto, req, client>>

OverlapLogin == \E c \in Slots, ok \in BOOLEAN : BlueskyLogin(c, ok)

OverlapFeed == \E c \in Slots, items \in OverlapFeeds : BlueskyFeed(c, TRUE, items)

OverlapFacets == \E c \in Slots : BlueskyFacets(c, TRUE)

NextOverlap == OverlapTick \/ OverlapFetch \/ OverlapLogin \/ OverlapFeed \/ OverlapFacets

SpecOverlap == Init /\ [][NextOverlap]_vars

\* C14: for any interleaving of overlapping requests no decrement is lost and
\* no elapsed refill interval is credited twice: the getToken calls that
\* returned true are as many as the initial tokens plus the tokens the refills
\* credited minus the tokens left, and the refills credited at most one token
\* per elapsed interval of 60 s.
C14_TokenAccounting ==
    /\ acq.granted = InitialTokens + acq.credited - tokenBucket.tokens
    /\ acq.credited >= 0
    /\ acq.credited <= now \div RefillRate
    /\ \A c \in Slots : bsky[c].logins > 0 => bsky[c].token

\* C14 witness: two calls are in flight at once, each holding a token, after
\* the bucket was drained and a refill credited: more calls were granted than
\* the bucket held at the start.
C14_Witness ==
    /\ bsky[1].pc = "login" /\ bsky[2].pc = "feed"
    /\ bsky[1].token /\ bsky[2].token
    /\ acq.credited > 0
    /\ acq.granted > InitialTokens
    /\ tokenBucket.tokens = 0

\* C15: every fetchNostrPosts call that created a relay pool has closed it
\* when it resolves, on the success path and on the error path, and the
\* subscription it opened has been unsubscribed by then (checked under
\* SpecNostr).
C15_ResourcesReleased ==
    \A c \in Slots :
        LET n == nostr[c]
        IN  /\ n.pools <= n.poolsCreated /\ n.subs <= n.subsOpened
            /\ n.subsOpened <= n.poolsCreated
            /\ n.pc = "collecting" => (n.pools = 1 /\ n.subs = 1)
            /\ n.pc = "done" => (n.pools = 0 /\ n.subs = 0 /\ n.timers = 0)

\* C15 witness: a call that had created a pool and opened a subscription
\* ended in the catch block, the pool closed and the subscription gone.
C15_Witness ==
    /\ nostr[1].pc = "done" /\ nostr[1].failed
    /\ nostr[1].poolsCreated = 1 /\ nostr[1].subsOpened = 1
    /\ nostr[1].pools = 0 /\ nostr[1].subs = 0

\* what the bucket holds after the refill step of a call made now
TokensAfterRefill ==
    LET units == (now - tokenBucket.lastRefill) \div RefillRate
    IN  IF units >= 1 THEN Min(Capacity, tokenBucket.tokens + units) ELSE tokenBucket.tokens

\* a step of slot c's call: its start takes one token when it goes on to the
\* login, and no later step of it (login, feed request, segmentation,
\* failing or not) changes the bucket
C16_Step(c) ==
    bsky'[c] # bsky[c] =>
        IF bsky[c].pc \in {"idle", "done"}
        THEN bsky'[c].logins = 1 =>
                /\ TokensAfterRefill >= 1
                /\ tokenBucket'.tokens = TokensAfterRefill - 1
                /\ acq'.granted = acq.granted + 1
        ELSE tokenBucket' = tokenBucket /\ acq' = acq

\* C16: every fetchBlueskyPosts call that contacts the upstream has consumed
\* exactly one token before its first network call (the login); the token is
\* not returned when the login, the feed request or the segmentation fails;
\* no call consumes more than one token (checked under SpecBluesky).
C16_TokenBeforeLogin ==
    /\ [](\A c \in Slots :
            /\ bsky[c].acquires <= 1
            /\ bsky[c].logins > 0 => (bsky[c].token /\ bsky[c].acquires = 1)
            /\ bsky[c].feedReqs > 0 => bsky[c].logins > 0)
    /\ [][\A c \in Slots : C16_Step(c)]_vars

\* C16 witness: the first call took a token, logged in and failed at the feed
\* request; the bucket is still one token short.
C16_Witness ==
    /\ bsky[1].pc = "done" /\ bsky[1].failed
    /\ bsky[1].token /\ bsky[1].logins = 1 /\ bsky[1].feedReqs = 1
    /\ acq.granted = 1
    /\ now = 0
    /\ tokenBucket.tokens = InitialTokens - 1

(***************************************************************************)
(* Claims about single getToken calls (checked under SpecBucket).          *)
(***************************************************************************)
\* a step that is one getToken call, and what the call returned
IsGetTokenStep == Len(burst') = Len(burst) + 1
Returned == burst'[Len(burst')]

\* C18: a getToken call at time now, with units = floor((now - lastRefill) /
\* 60000): if units >= 1 the bucket holds min(capacity, tokens + units) before
\* the decrement and lastRefill becomes now, the remainder of the elapsed time
\* discarded; if units = 0, lastRefill stays and the tokens are not increased.
C18_Step ==
    LET units == (now - tokenBucket.lastRefill) \div RefillRate
        taken == IF Returned THEN 1 ELSE 0
    IN  IsGetTokenStep =>
            /\ units >= 1 =>
                  /\ tokenBucket'.tokens + taken = Min(Capacity, tokenBucket.tokens + units)
                  /\ tokenBucket'.lastRefill = now
            /\ units = 0 =>
                  /\ tokenBucket'.tokens + taken = tokenBucket.tokens
                  /\ tokenBucket'.lastRefill = tokenBucket.lastRefill
            /\ units >= 0

C18_RefillStep == [][C18_Step]_vars

\* C18 witness: a call made 1 ms after a whole number of intervals refilled
\* the drained bucket and moved lastRefill to the time of the call, not to
\* the interval boundary.
C18_Witness ==
    /\ Drained
    /\ now % RefillRate = 1 /\ now > RefillRate
    /\ burst = <<TRUE>>
    /\ tokenBucket.lastRefill = now

\* C19: a getToken call that returns false leaves tokens and lastRefill as
\* they were.
C19_Step == (IsGetTokenStep /\ ~Returned) => tokenBucket' = tokenBucket

C19_RefusalIsFrame == [][C19_Step]_vars

\* C19 witness: a call was refused on the empty bucket some time, less than an
\* interval, after the last refill, and lastRefill is still the earlier time.
C19_Witness ==
    /\ burst # <<>> /\ ~burst[Len(burst)]
    /\ tokenBucket.tokens = 0
    /\ tokenBucket.lastRefill > 0
    /\ tokenBucket.lastRefill < now

\* the id of the last status of the page the upstream served in answer to
\* request k of an invocation
LastServedId(pages, k) == PageOf(pages[k], k - 1)[PageLen(pages[k])].id

\* C20: within one fetchMastodonPosts call the first search request carries no
\* max_id (Null in m.sent), and every later request carries as max_id the id
\* of the last status of the page served just before it, as the upstream
\* sent that page, also when the filter dropped that status (checked under
\* SpecMastodon).  Line 247 sends max_id only when maxId is truthy: after a
\* page whose last status has a falsy id the next request carries none.
C20_Cursor ==
    \A c \in Slots :
        LET m == masto[c]
        IN  /\ Len(m.sent) = m.reqs
            /\ m.reqs >= 1 => m.sent[1] = Null
            /\ \A k \in 2 .. Len(m.sent) :
                  /\ m.sent[k] = LastServedId(m.pages, k - 1)
                  /\ m.sent[k] # Null

\* what does hold of the cursor: it is the last served id, filtered out or
\* not, whenever that id is truthy, and is left out otherwise
CursorWhenTruthy ==
    \A c \in Slots :
        LET m == masto[c]
        IN  /\ Len(m.sent) = m.reqs
            /\ m.reqs >= 1 => m.sent[1] = Null
            /\ \A k \in 2 .. Len(m.sent) :
                  m.sent[k] = IF LastServedId(m.pages, k - 1) > 0
                              THEN LastServedId(m.pages, k - 1)
                              ELSE Null

\* a third request carried the id of a status the filter had dropped
CursorOfDroppedStatus ==
    /\ masto[1].tab = 1
    /\ Len(masto[1].sent) >= 3
    /\ masto[1].sent[3] = 2 * PostsPerPage
    /\ ~Matches(1, ContentOf(2 * PostsPerPage))
    /\ \A i \in DOMAIN masto[1].allPosts : masto[1].allPosts[i].id # 2 * PostsPerPage
    /\ \E i \in DOMAIN masto[1].allPosts : masto[1].allPosts[i].id > PostsPerPage

(***************************************************************************)
(* Specification of overlapping requests' fetchNostrPosts calls for one    *)
(* tab: two calls in flight at a time, the cache lookup of each run to its *)
(* first await in one step of the event loop.                              *)
(***************************************************************************)
RelayOverlapTabs == {0}
RelayOverlapDeltas == {1}
RelayOverlapEvents == {e \in Events : e.id \in {1, 3}}

RelayOverlapTick ==
    /\ \E d \in RelayOverlapDeltas : Tick(d)
    /\ UNCHANGED <<nostrCache, bsky, nostr, masto, req, client>>

RelayOverlapFetch ==
    /\ \E c \in Slots, tab \in RelayOverlapTabs : FetchNostrStart(c, tab, TRUE)
    /\ UNCHANGED <<clockVars, bucketVars, bsky, masto, req, client>>

RelayOverlapEvent == \E c \in Slots, e \in RelayOverlapEvents : NostrEvent(c, e)

RelayOverlapTimer == \E c \in Slots : NostrTimer(c)

NextRelayOverlap ==
    RelayOverlapTick \/ AdvanceToTimer \/ RelayOverlapFetch \/ RelayOverlapEvent
        \/ RelayOverlapTimer

SpecRelayOverlap == Init /\ [][NextRelayOverlap]_vars

\* at most one subscription is open for a tab at a time
OneSubscriptionPerTab ==
    \A c, d \in Slots :
        (c # d /\ nostr[c].subs > 0 /\ nostr[d].subs > 0) => nostr[c].tab # nostr[d].tab

\* the calls of slots c and d both wrote the entry for their tab, each when
\* its timer fired.  A call starts CollectWindow before its deadline and its
\* timer fires no sooner than TimerEarly before it, so with deadlines less
\* than CollectWindow - TimerEarly apart whichever of the two wrote second
\* had started before the first wrote, and replaced what it had written
Overwrote(d, c) ==
    /\ nostr[c].pc = "done" /\ nostr[c].fired = 1 /\ ~nostr[c].failed
    /\ nostr[d].pc = "done" /\ nostr[d].fired = 1 /\ ~nostr[d].failed
    /\ nostr[c].tab = nostr[d].tab
    /\ nostr[c].deadline <= nostr[d].deadline
    /\ nostr[d].deadline - nostr[c].deadline < CollectWindow - TimerEarly
    /\ nostrCache[nostr[d].tab].has
    /\ nostrCache[nostr[d].tab].at >= nostr[c].deadline - TimerEarly

\* C17: for any interleaving of overlapping relay fetches for one tab, at
\* most one subscription for the tab is open at a time (a fetch that starts
\* during another's collection window opens none), and no cache entry written
\* by one fetch is overwritten by an overlapping fetch that started before it
\* was written.  fetchNostrPosts looks the cache up and, 10 s later, writes
\* it, with nothing in between that tells a second call of the first:
\* violated.
C17_SingleFlight ==
    /\ OneSubscriptionPerTab
    /\ \A c, d \in Slots : c # d => ~Overwrote(d, c)

\* the lost cache write on its own
NoLostCacheWrite == \A c, d \in Slots : c # d => ~Overwrote(d, c)

(***************************************************************************)
(* C21: what fetchNostrPosts does to the cache (checked under SpecNostr).  *)
(***************************************************************************)
\* slot c's call ends in this step on the success path: its timer fires and
\* the processing of what it collected does not throw
EndsWell(c) == nostr[c].pc = "collecting" /\ nostr'[c].pc = "done" /\ ~nostr'[c].failed

\* the step writes the entry of slot c's tab, and no other: the list the call
\* returns, stored now, after the collection window
WritesResult(c) ==
    /\ EndsWell(c)
    /\ now >= nostr[c].deadline - TimerEarly /\ nostr'[c].fired = 1
    /\ nostrCache' = [nostrCache EXCEPT ![nostr[c].tab] =
            [has |-> TRUE, v |-> nostr'[c].result, t |-> now + StdTTL * 1000, at |-> now]]

\* the lookup of the call slot c starts in this step removes the entry for
\* the call's tab, which was past its expiry, and nothing else changes
LookupRemoves(c) ==
    /\ NostrStarts(c) /\ ~nostr'[c].hit
    /\ nostrCache[nostr'[c].tab].has /\ nostrCache[nostr'[c].tab].t < now
    /\ nostrCache' = [nostrCache EXCEPT ![nostr'[c].tab] = NoEntry]

\* no call acts in the step (it is the periodic check of the cache), and
\* every entry it changes was past its expiry and is removed
CheckRemoves ==
    /\ nostr' = nostr
    /\ \A k \in TabValues :
          nostrCache'[k] # nostrCache[k] =>
              (nostrCache[k].has /\ nostrCache[k].t < now /\ nostrCache'[k] = NoEntry)

\* a step in which slot c's call hits the cache
Hits(c) == NostrStarts(c) /\ nostr'[c].hit

\* a step in which slot c's call ends on the error path: at once, when
\* pool.sub throws, or when the processing after the timer throws
FailsAtStart(c) == NostrStarts(c) /\ nostr'[c].failed
FailsAtTimer(c) == nostr[c].pc = "collecting" /\ nostr'[c].pc = "done" /\ nostr'[c].failed

\* C21 as stated: the cache is written only on the success path, after the
\* collection window, with the list returned; a call that hits or that ends
\* on the error path leaves every entry as it was; no fetcher ever deletes an
\* entry.  The lookup of line 161 removes the entry it finds expired, also in
\* a call that then ends on the error path: violated.
C21_Original ==
    [][/\ nostrCache' # nostrCache => \E c \in Slots : WritesResult(c)
       /\ \A c \in Slots : (Hits(c) \/ FailsAtStart(c) \/ FailsAtTimer(c)) =>
                                nostrCache' = nostrCache]_vars

\* C21, amended: a call writes the entry for its tab only on the success path,
\* after its timer, with the list it returns; a call that hits or that ends
\* on the error path writes nothing and leaves every unexpired entry as it
\* was; an entry is removed only when past its expiry, either by the lookup
\* of a call for its tab or by the periodic check of the cache.
C21_CacheWrites ==
    [][/\ nostrCache' # nostrCache =>
            \/ \E c \in Slots : WritesResult(c)
            \/ \E c \in Slots : LookupRemoves(c)
            \/ CheckRemoves
       /\ \A c \in Slots : EndsWell(c) => WritesResult(c)
       /\ \A c \in Slots : (Hits(c) \/ FailsAtTimer(c)) => nostrCache' = nostrCache
       /\ \A c \in Slots : FailsAtStart(c) => (nostrCache' = nostrCache \/ LookupRemoves(c))
       /\ \A k \in TabValues :
             (nostrCache[k].has /\ nostrCache[k].t >= now /\ nostrCache'[k] # nostrCache[k]) =>
                 \E c \in Slots : WritesResult(c) /\ nostr[c].tab = k]_vars

\* C21 witness: the lookup of a call removed the entry for the call's tab,
\* which was past its expiry, before any periodic check after that expiry,
\* and the call ended on the error path; no entry was written for its tab,
\* and another tab's entry, a stored non-empty list not yet expired, is still
\* there.
C21_Witness ==
    /\ nostr[1].pc = "done" /\ nostr[1].failed /\ nostr[1].evicted
    /\ ~nostrCache[nostr[1].tab].has
    /\ now < 2 * (CheckPeriod * 1000 - TimerEarly)
    /\ \E k \in TabValues :
          nostrCache[k].has /\ nostrCache[k].v # <<>> /\ nostrCache[k].t >= now

\* C22: whatever the spacing of the getToken calls, by time T after the
\* bucket was created at most capacity + floor(T / refillRate) calls have
\* returned true (checked under SpecBucket; the bucket is created at time 0).
C22_RateBound == acq.granted <= Capacity + now \div RefillRate

\* C22 witness: the bound is met: the bucket was drained at time 0 and, two
\* intervals later, two more calls were granted and a third refused.
C22_Witness ==
    /\ Drained
    /\ now = 2 * RefillRate
    /\ burst = <<TRUE, TRUE, FALSE>>
    /\ acq.granted = Capacity + 2

(***************************************************************************)
(* C23: the search query (checked under SpecQuery).                        *)
(***************************************************************************)
RECURSIVE LiteralTermsIn(_, _, _)
\* the alternatives of a pattern source (characters lo .. hi), in their order,
\* each as the text it matches literally: a backslash that escapes the next
\* character is dropped (the sources have no two backslashes in a row), and a
\* bar becomes " OR "
LiteralTermsIn(s, lo, hi) ==
    IF lo > hi THEN <<>>
    ELSE IF lo = hi
         THEN (IF s[lo] = "\\" /\ lo < Len(s) THEN <<>>
               ELSE IF s[lo] = "|" THEN <<" ", "O", "R", " ">>
               ELSE <<s[lo]>>)
         ELSE LiteralTermsIn(s, lo, (lo + hi) \div 2)
                \o LiteralTermsIn(s, (lo + hi) \div 2 + 1, hi)

LiteralQuery(tab) == LiteralTermsIn(At(patternSources, tab), 1, Len(At(patternSources, tab)))

\* C23: for every tab pattern the query fetchMastodonPosts sends is the
\* pattern's alternatives in their order joined by " OR ", each a literal
\* term, with no regex escape left.  Only the escaped dots are unescaped: the
\* escaped slashes of six of the seven patterns stay in the query: violated.
C23_QueryTranslation ==
    \A c \in Slots :
        masto[c].pc \in {"waiting", "done"} =>
            /\ masto[c].query = LiteralQuery(masto[c].tab)
            /\ "\\" \notin Range(masto[c].query)

\* what holds of the code: no bar and no escaped dot is left in the query, and
\* the query of the one pattern without a slash (tab 3) is the literal terms
QueryDotsAndBars ==
    \A c \in Slots :
        LET q == masto[c].query
        IN  masto[c].pc \in {"waiting", "done"} =>
                /\ q # <<>>
                /\ "|" \notin Range(q)
                /\ \A i \in 1 .. (Len(q) - 1) : ~(q[i] = "\\" /\ q[i + 1] = ".")
                /\ masto[c].tab = 3 => q = LiteralQuery(3)

(***************************************************************************)
(* Specification of the client: the user clicks tabs and pages, the        *)
(* requests issued settle in any order, each with a 2xx answer or not.     *)
(***************************************************************************)
TabClicked == \E t \in ClientTabs : ClickTab(t)

PageClicked == \E p \in Pages : ClickPage(p)

FeedResponse == \E r \in client.inflight, ok \in BOOLEAN : FetchSettles(r, ok)

NextClient == TabClicked \/ PageClicked \/ FeedResponse

SpecClient == Init /\ [][NextClient]_vars

\* C24: when the user changes the tab while an earlier feed request is in
\* flight, then in whatever order the responses arrive, once all requests
\* have settled the feed state holds no response for another tab than the
\* one selected.  The effect neither aborts the earlier request nor ignores
\* its response, so the late response of the earlier tab is stored: violated.
C24_FeedFresh ==
    (client.inflight = {} /\ client.currentPage = "main") =>
        client.feed \in {client.activeTab, NoFeed}

=============================================================================
